---- MODULE Spec2Model ----
(***************************************************************************)
(* Model of internal/urlcheck/checker.go: the Checker's worker pool        *)
(* (Check), the per-URL retry loop (checkOne) and the retry                *)
(* classification (shouldRetry).                                           *)
(*                                                                         *)
(* Goroutines are processes with a program counter each: the caller of     *)
(* Check (who also drains the results channel), the dispatcher, the        *)
(* joiner, and c.concurrency workers.  The operation context and the HTTP  *)
(* client are the environment: the context may be cancelled or may expire  *)
(* at any moment, and an attempt in flight may end with any response or    *)
(* any error the client can return.                                        *)
(***************************************************************************)
EXTENDS Integers, Sequences, FiniteSets, TLC

\* ---------------------------------------------------------------- bounds
MaxUrls == 2
MaxConcurrency == 2
MaxRetries == 1

\* ------------------------------------------------------- program constants
\* timeout = 5 * time.Second, in seconds
DefaultTimeout == 5

\* ------------------------------------------------------------ input values
\* URL strings given to Check; the second one does not parse.
GoodURL == "http://a"
BadURL == "://b"
URLS == {GoodURL, BadURL}

\* Status codes a response may carry (resp.StatusCode), on both sides of
\* the two limits of the ok range.
Statuses == {0, 200, 399, 400, 500}

\* Raw arguments of NewChecker.
RawConcurrency == 0..MaxConcurrency
RawRetries == -1..MaxRetries
RawTimeouts == {0}

\* All sequences over S of length at most n.
RECURSIVE SeqsUpTo(_, _)
SeqsUpTo(S, n) ==
    IF n = 0 THEN {<<>>}
    ELSE LET shorter == SeqsUpTo(S, n - 1)
         IN  shorter \cup {Append(s, x) : s \in {t \in shorter : Len(t) = n - 1}, x \in S}

\* ------------------------------------------------------------------ errors
\* An error value is named by its kind; ErrChain is its Unwrap chain of
\* dynamic types, outermost first.  http.NewRequestWithContext returns the
\* *url.Error of url.Parse; client.Do wraps every failure in a *url.Error.
ErrKinds == {"parse", "dns", "tls", "deadline", "canceled"}

ErrChain(e) ==
    CASE e = "parse" -> <<"*url.Error", "*errors.errorString">>
      [] e = "dns" -> <<"*url.Error", "*net.DNSError">>
      [] e = "tls" -> <<"*url.Error", "x509.UnknownAuthorityError">>
      [] e = "deadline" -> <<"*url.Error", "context.deadlineExceededError">>
      [] e = "canceled" -> <<"*url.Error", "*errors.errorString(context.Canceled)">>
      [] OTHER -> <<>>

\* The types whose method set holds Error, Timeout and Temporary, that is
\* the types assignable to net.Error.
NetErrorTypes == {"*url.Error", "*net.DNSError", "context.deadlineExceededError"}

\* errors.Is(err, context.DeadlineExceeded)
IsDeadlineExceeded(e) ==
    \E k \in 1..Len(ErrChain(e)) : ErrChain(e)[k] = "context.deadlineExceededError"

\* var netErr net.Error; errors.As(err, &netErr)
AsNetError(e) ==
    \E k \in 1..Len(ErrChain(e)) : ErrChain(e)[k] \in NetErrorTypes

\* err.Error()
ErrorText(e) ==
    CASE e = "parse" -> "parse: missing protocol scheme"
      [] e = "dns" -> "Get: lookup: temp"
      [] e = "tls" -> "Get: x509: certificate signed by unknown authority"
      [] e = "deadline" -> "Get: context deadline exceeded"
      [] e = "canceled" -> "Get: context canceled"
      [] OTHER -> ""

\* ----------------------------------------------------------------- Checker
ClampConcurrency(n) == IF n < 1 THEN 1 ELSE n
ClampTimeout(t) == IF t <= 0 THEN DefaultTimeout ELSE t
\* Mutant: a negative retry count is kept.
ClampRetriesKept(r) == r

ClampRetries(r) == IF r < 0 THEN 0 ELSE r

NewChecker(concurrency, timeout, retries) ==
    [concurrency |-> ClampConcurrency(concurrency),
     timeout |-> ClampTimeout(timeout),
     retries |-> ClampRetries(retries)]

\* Mutant: the deadline is not told apart from the other network errors.
shouldRetryDeadline(e) == AsNetError(e)

shouldRetry(e) ==
    IF IsDeadlineExceeded(e) THEN FALSE
    ELSE IF AsNetError(e) THEN TRUE
    ELSE FALSE

\* ------------------------------------------------------------------ Result
ZeroResult == [url |-> "", ok |-> FALSE, status |-> 0, error |-> "", attempts |-> 0]

\* Mutant: the upper limit of the ok range is included.
StatusOKInclusive(code) == code >= 200 /\ code <= 400

\* ok := resp.StatusCode >= 200 && resp.StatusCode < 400
StatusOK(code) == code >= 200 /\ code < 400

\* Mutant: the Result reports the retries made instead of the attempts.
ResponseResultRetries(target, code, n) ==
    [url |-> target, ok |-> code >= 200 /\ code < 400, status |-> code,
     error |-> "", attempts |-> n - 1]

\* The Result returned from inside the loop, on a response.
ResponseResult(target, code, n) ==
    [url |-> target, ok |-> StatusOK(code), status |-> code, error |-> "", attempts |-> n]

\* Mutant: the Result after the loop drops the text of the last error.
FailureResultNoText(target, e, n) ==
    [url |-> target, ok |-> FALSE, status |-> 0, error |-> "", attempts |-> n]

\* The Result built after the loop.
FailureResult(target, e, n) ==
    [url |-> target, ok |-> FALSE, status |-> 0,
     error |-> IF e # "nil" THEN ErrorText(e) ELSE "", attempts |-> n]

\* Mutant: the construction of the request never fails.
NewRequestNeverFails(target) == FALSE

\* http.NewRequestWithContext fails on a URL that does not parse.
NewRequestFails(target) == target = BadURL

VARIABLES
    args,       \* the arguments NewChecker was called with
    c,          \* the Checker
    urls,       \* the urls argument of Check
    ctxErr,     \* ctx.Err(): "nil", "Canceled" or "DeadlineExceeded"
    mainPc,     \* the caller: "call", "collect", "ctxerr", "done"
    results,    \* the results slice
    retErr,     \* the error Check returned
    dispPc,     \* the dispatcher: "new", "run", "done"
    nextIdx,    \* the dispatcher's loop index (1-based)
    jobsClosed, \* close(jobs) has run
    out,        \* the buffer of the out channel
    outClosed,  \* close(out) has run
    wpc,        \* per worker: "new", "recv", "loop", "inflight", "emit", "exit"
    wjob,       \* per worker: the job it holds
    attempts,   \* per worker: checkOne's attempts
    lastErr,    \* per worker: checkOne's lastErr
    wres,       \* per worker: the Result checkOne returned
    whist,      \* history: per worker, the outcomes of the attempts of its checkOne call
    takes,      \* history: per index, how many times a worker received it
    writes,     \* history: per index, how many times results[idx] was assigned
    produced,   \* history: per index, the Result checkOne returned for it
    reqs,       \* history: per index, how many requests client.Do was given
    early,      \* history: an attempt has ended while ctx.Err() was nil
    active      \* history: the requests sent whose outcome is not yet received

vars == <<args, c, urls, ctxErr, mainPc, results, retErr, dispPc, nextIdx,
          jobsClosed, out, outClosed, wpc, wjob, attempts, lastErr, wres,
          whist, takes, writes, produced, reqs, early, active>>

\* Mutant: the loop that starts the workers runs once too often.
PoolSizeOffByOne == c.concurrency + 1

\* The number of worker goroutines Check starts.
PoolSize == c.concurrency

Workers == 1..PoolSize
Indexes == 1..Len(urls)

NoJob == [idx |-> 0, url |-> ""]

Init ==
    /\ args \in [concurrency : RawConcurrency, timeout : RawTimeouts, retries : RawRetries]
    /\ c = NewChecker(args.concurrency, args.timeout, args.retries)
    /\ urls \in SeqsUpTo(URLS, MaxUrls)
    /\ ctxErr = "nil"
    /\ mainPc = "call"
    /\ results = <<>>
    /\ retErr = "nil"
    /\ dispPc = "new"
    /\ nextIdx = 1
    /\ jobsClosed = FALSE
    /\ out = <<>>
    /\ outClosed = FALSE
    /\ wpc = [w \in 1..PoolSize |-> "new"]
    /\ wjob = [w \in 1..PoolSize |-> NoJob]
    /\ attempts = [w \in 1..PoolSize |-> 0]
    /\ lastErr = [w \in 1..PoolSize |-> "nil"]
    /\ wres = [w \in 1..PoolSize |-> ZeroResult]
    /\ whist = [w \in 1..PoolSize |-> <<>>]
    /\ takes = [i \in 1..Len(urls) |-> 0]
    /\ writes = [i \in 1..Len(urls) |-> 0]
    /\ produced = [i \in 1..Len(urls) |-> ZeroResult]
    /\ reqs = [i \in 1..Len(urls) |-> 0]
    /\ early = FALSE
    /\ active = 0

\* ------------------------------------------------------------- environment
\* The caller (or anyone holding the cancel function) cancels ctx.
CancelCtx ==
    /\ ctxErr = "nil"
    /\ mainPc # "done"
    /\ ctxErr' = "Canceled"
    /\ UNCHANGED <<args, c, urls, mainPc, results, retErr, dispPc, nextIdx,
                   jobsClosed, out, outClosed, wpc, wjob, attempts, lastErr,
                   wres, whist, takes, writes, produced, reqs, early, active>>

\* The deadline of ctx passes.
ExpireCtx ==
    /\ ctxErr = "nil"
    /\ mainPc # "done"
    /\ ctxErr' = "DeadlineExceeded"
    /\ UNCHANGED <<args, c, urls, mainPc, results, retErr, dispPc, nextIdx,
                   jobsClosed, out, outClosed, wpc, wjob, attempts, lastErr,
                   wres, whist, takes, writes, produced, reqs, early, active>>

\* ------------------------------------------------------------------- Check
\* Check up to its collecting loop: the results slice, the two channels and
\* the goroutines.
CheckBegin ==
    /\ mainPc = "call"
    /\ mainPc' = "collect"
    /\ results' = [i \in Indexes |-> ZeroResult]
    /\ wpc' = [w \in Workers |-> "recv"]
    /\ dispPc' = "run"
    /\ UNCHANGED <<args, c, urls, ctxErr, retErr, nextIdx, jobsClosed, out,
                   outClosed, wjob, attempts, lastErr, wres, whist, takes, writes, produced, reqs, early, active>>

\* Mutant: the dispatcher's loop index does not advance on a send, so the
\* same item is handed out again.
DispatchSameItem(w) ==
    /\ dispPc = "run"
    /\ nextIdx <= Len(urls)
    /\ wpc[w] = "recv"
    /\ ~jobsClosed
    /\ takes[nextIdx] < 2
    /\ wjob' = [wjob EXCEPT ![w] = [idx |-> nextIdx, url |-> urls[nextIdx]]]
    /\ attempts' = [attempts EXCEPT ![w] = 0]
    /\ lastErr' = [lastErr EXCEPT ![w] = "nil"]
    /\ wpc' = [wpc EXCEPT ![w] = "loop"]
    /\ takes' = [takes EXCEPT ![nextIdx] = @ + 1]
    /\ nextIdx' = IF takes[nextIdx] = 0 THEN nextIdx ELSE nextIdx + 1
    /\ UNCHANGED <<args, c, urls, ctxErr, mainPc, results, retErr, dispPc,
                   jobsClosed, out, outClosed, wres, whist, writes, produced, reqs, early, active>>

\* The dispatcher's select takes the send case and worker w's range
\* receives: jobs is unbuffered, so the two meet in one step.  The select
\* may take this case whatever ctx.Done() says.
Dispatch(w) ==
    /\ dispPc = "run"
    /\ nextIdx <= Len(urls)
    /\ wpc[w] = "recv"
    /\ ~jobsClosed
    /\ wjob' = [wjob EXCEPT ![w] = [idx |-> nextIdx, url |-> urls[nextIdx]]]
    /\ attempts' = [attempts EXCEPT ![w] = 0]
    /\ lastErr' = [lastErr EXCEPT ![w] = "nil"]
    /\ wpc' = [wpc EXCEPT ![w] = "loop"]
    /\ takes' = [takes EXCEPT ![nextIdx] = @ + 1]
    /\ nextIdx' = nextIdx + 1
    /\ UNCHANGED <<args, c, urls, ctxErr, mainPc, results, retErr, dispPc,
                   jobsClosed, out, outClosed, wres, whist, writes, produced, reqs, early, active>>

\* Mutant: close(jobs) is not deferred, so the early return skips it.
DispatchCtxDoneNoClose ==
    /\ dispPc = "run"
    /\ nextIdx <= Len(urls)
    /\ ctxErr # "nil"
    /\ dispPc' = "done"
    /\ UNCHANGED <<args, c, urls, ctxErr, mainPc, results, retErr, nextIdx,
                   jobsClosed, out, outClosed, wpc, wjob, attempts, lastErr,
                   wres, whist, takes, writes, produced, reqs, early, active>>

\* The dispatcher's select takes the ctx.Done() case: return, and the
\* deferred close(jobs).
DispatchCtxDone ==
    /\ dispPc = "run"
    /\ nextIdx <= Len(urls)
    /\ ctxErr # "nil"
    /\ dispPc' = "done"
    /\ jobsClosed' = TRUE
    /\ UNCHANGED <<args, c, urls, ctxErr, mainPc, results, retErr, nextIdx,
                   out, outClosed, wpc, wjob, attempts, lastErr, wres, whist,
                   takes, writes, produced, reqs, early, active>>

\* The dispatcher's range over urls is exhausted: the deferred close(jobs).
DispatchEnd ==
    /\ dispPc = "run"
    /\ nextIdx > Len(urls)
    /\ dispPc' = "done"
    /\ jobsClosed' = TRUE
    /\ UNCHANGED <<args, c, urls, ctxErr, mainPc, results, retErr, nextIdx,
                   out, outClosed, wpc, wjob, attempts, lastErr, wres, whist,
                   takes, writes, produced, reqs, early, active>>

\* Worker w's range over jobs ends on the closed channel: wg.Done().
WorkerExit(w) ==
    /\ wpc[w] = "recv"
    /\ jobsClosed
    /\ wpc' = [wpc EXCEPT ![w] = "exit"]
    /\ UNCHANGED <<args, c, urls, ctxErr, mainPc, results, retErr, dispPc,
                   nextIdx, jobsClosed, out, outClosed, wjob, attempts,
                   lastErr, wres, whist, takes, writes, produced, reqs, early, active>>

\* ---------------------------------------------------------------- checkOne
\* The errors client.Do may return for a request whose context derives
\* from ctx: a network failure, a non-network failure, the deadline of the
\* attempt (or of ctx) and, once ctx is cancelled, the cancellation.
DoErrors == {"dns", "tls", "deadline"} \cup (IF ctxErr = "Canceled" THEN {"canceled"} ELSE {})

Response(code) == [err |-> "nil", status |-> code]
Failure(e) == [err |-> e, status |-> 0]

\* checkOne returns res to worker w: the locals of the call are gone.
ReturnFromCheckOne(w, res) ==
    /\ wres' = [wres EXCEPT ![w] = res]
    /\ attempts' = [attempts EXCEPT ![w] = 0]
    /\ lastErr' = [lastErr EXCEPT ![w] = "nil"]
    /\ wpc' = [wpc EXCEPT ![w] = "emit"]
    /\ produced' = [produced EXCEPT ![wjob[w].idx] = res]

\* The condition of checkOne's loop, with n attempts made.
LoopCondition(n) == n <= c.retries

\* One pass through the head of the loop: the loop condition, attempts++,
\* the request's construction and, when that succeeds, the call of
\* client.Do, which leaves the attempt in flight.  When the condition is
\* false, or the construction fails, the Result after the loop is built.
BeginAttempt(w) ==
    /\ wpc[w] = "loop"
    /\ IF LoopCondition(attempts[w])
       THEN IF NewRequestFails(wjob[w].url)
            THEN /\ ReturnFromCheckOne(w, FailureResult(wjob[w].url, "parse", attempts[w] + 1))
                 /\ whist' = [whist EXCEPT ![w] = Append(@, Failure("parse"))]
                 /\ UNCHANGED <<reqs, active>>
            ELSE /\ attempts' = [attempts EXCEPT ![w] = @ + 1]
                 /\ wpc' = [wpc EXCEPT ![w] = "inflight"]
                 /\ reqs' = [reqs EXCEPT ![wjob[w].idx] = @ + 1]
                 /\ active' = active + 1
                 /\ UNCHANGED <<lastErr, wres, whist, produced>>
       ELSE /\ ReturnFromCheckOne(w, FailureResult(wjob[w].url, lastErr[w], attempts[w]))
            /\ UNCHANGED <<whist, reqs, active>>
    /\ UNCHANGED <<args, c, urls, ctxErr, mainPc, results, retErr, dispPc,
                   nextIdx, jobsClosed, out, outClosed, wjob, takes, writes, early>>

\* Mutant: a response with a 5xx status is treated as a failure to retry.
AttemptResponseRetry5xx(w, code) ==
    /\ wpc[w] = "inflight"
    /\ whist' = [whist EXCEPT ![w] = Append(@, Response(code))]
    /\ early' = (early \/ ctxErr = "nil")
    /\ active' = active - 1
    /\ IF code >= 500 /\ attempts[w] <= c.retries
       THEN /\ wpc' = [wpc EXCEPT ![w] = "loop"]
            /\ UNCHANGED <<wres, attempts, lastErr, produced>>
       ELSE ReturnFromCheckOne(w, ResponseResult(wjob[w].url, code, attempts[w]))
    /\ UNCHANGED <<args, c, urls, ctxErr, mainPc, results, retErr, dispPc,
                   nextIdx, jobsClosed, out, outClosed, wjob, takes, writes, reqs>>

\* client.Do returns a response with status code: the body is drained and
\* closed, and checkOne returns from inside the loop.
AttemptResponse(w, code) ==
    /\ wpc[w] = "inflight"
    /\ ReturnFromCheckOne(w, ResponseResult(wjob[w].url, code, attempts[w]))
    /\ whist' = [whist EXCEPT ![w] = Append(@, Response(code))]
    /\ early' = (early \/ ctxErr = "nil")
    /\ active' = active - 1
    /\ UNCHANGED <<args, c, urls, ctxErr, mainPc, results, retErr, dispPc,
                   nextIdx, jobsClosed, out, outClosed, wjob, takes, writes, reqs>>

\* Mutant: the last unit of the retry budget is never used.
RetryAfterOffByOne(e, n) == shouldRetry(e) /\ n < c.retries

\* The decision taken on an error of client.Do: continue or break.
RetryAfter(e, n) == shouldRetry(e) /\ n <= c.retries

\* client.Do returns error e: lastErr is set, and the loop continues or
\* breaks; on a break the Result after the loop is built.
AttemptFail(w, e) ==
    /\ wpc[w] = "inflight"
    /\ e \in DoErrors
    /\ whist' = [whist EXCEPT ![w] = Append(@, Failure(e))]
    /\ early' = (early \/ ctxErr = "nil")
    /\ active' = active - 1
    /\ IF RetryAfter(e, attempts[w])
       THEN /\ lastErr' = [lastErr EXCEPT ![w] = e]
            /\ wpc' = [wpc EXCEPT ![w] = "loop"]
            /\ UNCHANGED <<wres, attempts, produced>>
       ELSE ReturnFromCheckOne(w, FailureResult(wjob[w].url, e, attempts[w]))
    /\ UNCHANGED <<args, c, urls, ctxErr, mainPc, results, retErr, dispPc,
                   nextIdx, jobsClosed, out, outClosed, wjob, takes, writes, reqs>>

\* Mutant: the out channel is sized by the worker pool, not by the URLs.
OutCapPool == c.concurrency

\* --------------------------------------------------- Check, the second half
\* The capacity of the out channel.
OutCap == Len(urls)

\* Mutant: every worker addresses its result to the first slot.
ResultIdxShared(j) == 1

\* The slot a worker's result is addressed to.
ResultIdx(j) == j.idx

\* Worker w sends its result on out and goes back to the range over jobs;
\* the job and the result it held are gone.
Emit(w) ==
    /\ wpc[w] = "emit"
    /\ ~outClosed
    /\ Len(out) < OutCap
    /\ out' = Append(out, [idx |-> ResultIdx(wjob[w]), res |-> wres[w]])
    /\ wpc' = [wpc EXCEPT ![w] = "recv"]
    /\ wjob' = [wjob EXCEPT ![w] = NoJob]
    /\ wres' = [wres EXCEPT ![w] = ZeroResult]
    /\ whist' = [whist EXCEPT ![w] = <<>>]
    /\ UNCHANGED <<args, c, urls, ctxErr, mainPc, results, retErr, dispPc,
                   nextIdx, jobsClosed, outClosed, attempts, lastErr,
                   takes, writes, produced, reqs, early, active>>

\* wg.Wait() returns when every worker has run wg.Done().
AllWorkersDone == \A w \in Workers : wpc[w] = "exit"

\* Mutant: the joiner closes out without waiting for the workers.
JoinerCloseNoWait ==
    /\ mainPc # "call"
    /\ ~outClosed
    /\ outClosed' = TRUE
    /\ UNCHANGED <<args, c, urls, ctxErr, mainPc, results, retErr, dispPc,
                   nextIdx, jobsClosed, out, wpc, wjob, attempts, lastErr,
                   wres, whist, takes, writes, produced, reqs, early, active>>

\* The joiner: wg.Wait(), then close(out).
JoinerClose ==
    /\ mainPc # "call"
    /\ ~outClosed
    /\ AllWorkersDone
    /\ outClosed' = TRUE
    /\ UNCHANGED <<args, c, urls, ctxErr, mainPc, results, retErr, dispPc,
                   nextIdx, jobsClosed, out, wpc, wjob, attempts, lastErr,
                   wres, whist, takes, writes, produced, reqs, early, active>>

\* The caller's range over out receives r: results[r.idx] = r.res.
Collect ==
    /\ mainPc = "collect"
    /\ out # <<>>
    /\ LET r == Head(out)
       IN  /\ results' = [results EXCEPT ![r.idx] = r.res]
           /\ writes' = [writes EXCEPT ![r.idx] = @ + 1]
    /\ out' = Tail(out)
    /\ UNCHANGED <<args, c, urls, ctxErr, mainPc, retErr, dispPc, nextIdx,
                   jobsClosed, outClosed, wpc, wjob, attempts, lastErr, wres,
                   whist, takes, produced, reqs, early, active>>

\* Mutant: the caller also stops collecting as soon as ctx is done.
CollectEndOnDone ==
    /\ mainPc = "collect"
    /\ \/ out = <<>> /\ outClosed
       \/ ctxErr # "nil"
    /\ mainPc' = "ctxerr"
    /\ UNCHANGED <<args, c, urls, ctxErr, results, retErr, dispPc, nextIdx,
                   jobsClosed, out, outClosed, wpc, wjob, attempts, lastErr,
                   wres, whist, takes, writes, produced, reqs, early, active>>

\* The caller's range over out ends: out is closed and drained.
CollectEnd ==
    /\ mainPc = "collect"
    /\ out = <<>>
    /\ outClosed
    /\ mainPc' = "ctxerr"
    /\ UNCHANGED <<args, c, urls, ctxErr, results, retErr, dispPc, nextIdx,
                   jobsClosed, out, outClosed, wpc, wjob, attempts, lastErr,
                   wres, whist, takes, writes, produced, reqs, early, active>>

\* errors.Is(err, context.Canceled), for a value err of ctx.Err().
CtxIsCanceled(err) == err = "Canceled"

\* Mutant: the test for context.Canceled is inverted.
CheckErrorInverted(err) == IF err # "nil" /\ CtxIsCanceled(err) THEN err ELSE "nil"

\* Mutant: the test for context.Canceled is missing.
CheckErrorAny(err) == err

\* The error Check returns for the value err of ctx.Err().
CheckError(err) == IF err # "nil" /\ ~CtxIsCanceled(err) THEN err ELSE "nil"

\* Mutant: Check also returns an error when some URL's result carries one.
ReturnOnFailure ==
    /\ mainPc = "ctxerr"
    /\ retErr' = IF \E i \in 1..Len(results) : results[i].error # ""
                 THEN "DeadlineExceeded"
                 ELSE CheckError(ctxErr)
    /\ mainPc' = "done"
    /\ UNCHANGED <<args, c, urls, ctxErr, results, dispPc, nextIdx,
                   jobsClosed, out, outClosed, wpc, wjob, attempts, lastErr,
                   wres, whist, takes, writes, produced, reqs, early, active>>

\* The caller reads ctx.Err() and returns.
Return ==
    /\ mainPc = "ctxerr"
    /\ retErr' = CheckError(ctxErr)
    /\ mainPc' = "done"
    /\ UNCHANGED <<args, c, urls, ctxErr, results, dispPc, nextIdx,
                   jobsClosed, out, outClosed, wpc, wjob, attempts, lastErr,
                   wres, whist, takes, writes, produced, reqs, early, active>>

\* ------------------------------------------------------------ specification
\* The steps of the program's goroutines and of the HTTP client.
ProgramNext ==
    \/ CheckBegin
    \/ \E w \in Workers : Dispatch(w)
    \/ DispatchCtxDone
    \/ DispatchEnd
    \/ \E w \in Workers : WorkerExit(w)
    \/ \E w \in Workers : BeginAttempt(w)
    \/ \E w \in Workers : \E code \in Statuses : AttemptResponse(w, code)
    \/ \E w \in Workers : \E e \in DoErrors : AttemptFail(w, e)
    \/ \E w \in Workers : Emit(w)
    \/ JoinerClose
    \/ Collect
    \/ CollectEnd
    \/ Return

Next == ProgramNext \/ CancelCtx \/ ExpireCtx

Spec == Init /\ [][Next]_vars

\* Every goroutine that can take a step eventually takes one, and every
\* attempt in flight eventually ends; the context need never complete.
LiveSpec == Spec /\ WF_vars(ProgramNext)

\* The arguments of NewChecker on both sides of each limit: concurrency
\* around 1, timeout around 0, retries around 0.
MaxNormUrls == 1
NormTimeouts == {-1, 0, 2}
NormArgs ==
    [concurrency : -1..MaxConcurrency, timeout : NormTimeouts, retries : -2..MaxRetries]

\* The state after NewChecker on any of NormArgs, before Check is called.
NormInit ==
    /\ args \in NormArgs
    /\ c = NewChecker(args.concurrency, args.timeout, args.retries)
    /\ urls \in SeqsUpTo(URLS, MaxNormUrls)
    /\ ctxErr = "nil"
    /\ mainPc = "call"
    /\ results = <<>>
    /\ retErr = "nil"
    /\ dispPc = "new"
    /\ nextIdx = 1
    /\ jobsClosed = FALSE
    /\ out = <<>>
    /\ outClosed = FALSE
    /\ wpc = [w \in 1..PoolSize |-> "new"]
    /\ wjob = [w \in 1..PoolSize |-> NoJob]
    /\ attempts = [w \in 1..PoolSize |-> 0]
    /\ lastErr = [w \in 1..PoolSize |-> "nil"]
    /\ wres = [w \in 1..PoolSize |-> ZeroResult]
    /\ whist = [w \in 1..PoolSize |-> <<>>]
    /\ takes = [i \in 1..Len(urls) |-> 0]
    /\ writes = [i \in 1..Len(urls) |-> 0]
    /\ produced = [i \in 1..Len(urls) |-> ZeroResult]
    /\ reqs = [i \in 1..Len(urls) |-> 0]
    /\ early = FALSE
    /\ active = 0

\* Check on a Checker built from any of NormArgs, under the scheduling of
\* LiveSpec.
NormSpec == NormInit /\ [][Next]_vars /\ WF_vars(ProgramNext)

TypeOK ==
    /\ ctxErr \in {"nil", "Canceled", "DeadlineExceeded"}
    /\ mainPc \in {"call", "collect", "ctxerr", "done"}
    /\ dispPc \in {"new", "run", "done"}
    /\ \A w \in Workers : wpc[w] \in {"new", "recv", "loop", "inflight", "emit", "exit"}
    /\ nextIdx \in 1..(Len(urls) + 1)

\* ------------------------------------------------------------------ claims
Returned == mainPc = "done"

\* C1: when the context was never cancelled and never expired, Check
\* returns exactly one result per URL and results[i].url = urls[i] for
\* every i, whatever the order in which the checks completed.
C1_OrderPreserved ==
    (Returned /\ ctxErr = "nil") =>
        /\ Len(results) = Len(urls)
        /\ \A i \in Indexes : results[i].url = urls[i]

\* Check has returned, undisturbed, for two different URLs checked by two
\* workers.
C1_Witness ==
    /\ Returned
    /\ ctxErr = "nil"
    /\ PoolSize >= 2
    /\ Len(urls) >= 2
    /\ urls[1] # urls[2]
    /\ results[1].url = urls[1]
    /\ results[2].url = urls[2]

\* C2: the number of attempts in flight never exceeds the concurrency limit.
C2_ConcurrencyBound == active <= c.concurrency

\* The limit is reached: as many attempts in flight as the limit allows,
\* with two workers or more.
C2_Witness ==
    /\ c.concurrency >= 2
    /\ Len(urls) >= c.concurrency
    /\ active = c.concurrency

\* C3: every call of Check eventually returns, when every goroutine that
\* can step does step and every attempt in flight eventually ends.
C3_Terminates == <>Returned

\* Check has returned with two workers and two URLs, all goroutines done.
C3_Witness ==
    /\ Returned
    /\ PoolSize >= 2
    /\ Len(urls) >= 2
    /\ jobsClosed
    /\ outClosed
    /\ AllWorkersDone

\* The failure of attempt outcome o is a network-level error that is not
\* a deadline: the error the client wrapped is itself a net.Error.
IsNetworkFailure(o) ==
    /\ o.err # "nil"
    /\ ErrChain(o.err)[Len(ErrChain(o.err))] \in NetErrorTypes
    /\ ~IsDeadlineExceeded(o.err)

AllNetworkFailures(h) == \A k \in 1..Len(h) : IsNetworkFailure(h[k])

\* C4: attempts never exceeds retries + 1; and the Result of a call whose
\* every attempt failed with a retryable transport error has attempts =
\* retries + 1, ok false, status 0 and a non-empty error.
C4_RetryCeiling ==
    /\ \A w \in Workers : attempts[w] <= c.retries + 1 /\ wres[w].attempts <= c.retries + 1
    /\ \A i \in 1..Len(results) : results[i].attempts <= c.retries + 1
    /\ \A w \in Workers :
         (wpc[w] = "emit" /\ whist[w] # <<>> /\ AllNetworkFailures(whist[w])) =>
             /\ wres[w].attempts = c.retries + 1
             /\ Len(whist[w]) = c.retries + 1
             /\ ~wres[w].ok
             /\ wres[w].status = 0
             /\ wres[w].error # ""

\* A call has returned after failing retries + 1 times at the network
\* level, with a retry budget of one or more.
C4_Witness ==
    \E w \in Workers :
        /\ wpc[w] = "emit"
        /\ c.retries >= 1
        /\ Len(whist[w]) = c.retries + 1
        /\ AllNetworkFailures(whist[w])
        /\ wres[w].attempts = c.retries + 1

\* The Result is the one of a call that ended on a response.
IsResponseResult(r) == r.attempts >= 1 /\ r.error = ""

\* C5: a response of any status ends the call with that attempt: a call
\* that goes on has received no response, a response is the last outcome
\* of its call and attempts counts the attempts up to it, and the number
\* of requests sent for an index stays the attempts of its Result.
C5_NoRetryOnResponse ==
    /\ \A w \in Workers : \A k \in 1..Len(whist[w]) :
         whist[w][k].err = "nil" =>
             /\ wpc[w] = "emit"
             /\ k = Len(whist[w])
             /\ wres[w].attempts = k
    /\ \A i \in Indexes :
         /\ takes[i] <= 1
         /\ IsResponseResult(produced[i]) => reqs[i] = produced[i].attempts

\* A call has returned on a 500 received at its first attempt, with
\* retry budget left.
C5_Witness ==
    \E w \in Workers :
        /\ wpc[w] = "emit"
        /\ c.retries >= 1
        /\ whist[w] = <<Response(500)>>
        /\ wres[w].attempts = 1
        /\ reqs[wjob[w].idx] = 1

\* C6: the Result of a call whose first k attempts failed at the network
\* level and whose next attempt received a response has attempts = k + 1,
\* the status of that response, ok by that status and an empty error.
C6_RetrySuccess ==
    \A w \in Workers :
        (/\ wpc[w] = "emit"
         /\ whist[w] # <<>>
         /\ whist[w][Len(whist[w])].err = "nil"
         /\ AllNetworkFailures(SubSeq(whist[w], 1, Len(whist[w]) - 1))) =>
            LET code == whist[w][Len(whist[w])].status
            IN  wres[w] = [url |-> wjob[w].url,
                           ok |-> (200 <= code /\ code < 400),
                           status |-> code,
                           error |-> "",
                           attempts |-> Len(whist[w])]

\* A call has returned on a 200 that followed one network failure.
C6_Witness ==
    \E w \in Workers :
        /\ wpc[w] = "emit"
        /\ whist[w] = <<Failure("dns"), Response(200)>>
        /\ wres[w].ok
        /\ wres[w].attempts = 2

\* C7: in every result returned by Check, ok holds exactly when
\* 200 <= status < 400; a result of status 0 is not ok.
C7_StatusClassification ==
    Returned =>
        \A i \in 1..Len(results) :
            /\ results[i].ok <=> (200 <= results[i].status /\ results[i].status < 400)
            /\ results[i].status = 0 => ~results[i].ok

\* Check has returned one result on each side of the upper limit.
C7_Witness ==
    /\ Returned
    /\ Len(results) >= 2
    /\ results[1].status = 399
    /\ results[1].ok
    /\ results[2].status = 400
    /\ ~results[2].ok

SomeRequestSent == \E i \in Indexes : reqs[i] > 0

\* C8: Check returns a non-nil error exactly when ctx.Err(), read after
\* the results channel has drained, is set and is not a cancellation, and
\* that error is the deadline's; in particular, when a request was sent
\* and no attempt ended before the deadline of ctx passed.
C8_DeadlinePropagation ==
    Returned =>
        /\ retErr # "nil" <=> ctxErr \notin {"nil", "Canceled"}
        /\ retErr \in {"nil", "DeadlineExceeded"}
        /\ (SomeRequestSent /\ ~early /\ ctxErr # "Canceled") => retErr = "DeadlineExceeded"

\* Check has returned the deadline's error for two URLs, none of whose
\* attempts ended before the deadline.
C8_Witness ==
    /\ Returned
    /\ Len(urls) >= 2
    /\ SomeRequestSent
    /\ ~early
    /\ ctxErr = "DeadlineExceeded"
    /\ retErr = "DeadlineExceeded"

\* C9: after a cancellation by the caller Check returns a nil error and
\* one slot per URL, and every result a worker produced is in its slot,
\* as produced.
C9_BenignCancel ==
    ctxErr = "Canceled" =>
        /\ \A i \in Indexes : writes[i] >= 1 => results[i] = produced[i]
        /\ Returned =>
             /\ retErr = "nil"
             /\ Len(results) = Len(urls)
             /\ \A i \in Indexes : produced[i] # ZeroResult => results[i] = produced[i]

\* Check has returned after a cancellation that came after the first
\* URL's attempt ended: that result is kept and the second slot is empty.
C9_Witness ==
    /\ Returned
    /\ ctxErr = "Canceled"
    /\ retErr = "nil"
    /\ early
    /\ Len(urls) >= 2
    /\ results[1].status = 200
    /\ results[1] = produced[1]
    /\ results[2] = ZeroResult

\* C10: when Check returns, the slot of every index handed to a worker
\* holds the result that worker produced for it, and the slot of every
\* index never handed to a worker is the zero value.
C10_DispatchedSlots ==
    Returned =>
        \A i \in Indexes :
            /\ takes[i] >= 1 =>
                 /\ results[i] = produced[i]
                 /\ results[i].url = urls[i]
                 /\ results[i].attempts >= 1
            /\ takes[i] = 0 =>
                 /\ results[i] = ZeroResult
                 /\ writes[i] = 0

\* Check has returned with the first index dispatched and the second not.
C10_Witness ==
    /\ Returned
    /\ ctxErr = "DeadlineExceeded"
    /\ Len(urls) >= 2
    /\ takes[1] = 1
    /\ takes[2] = 0
    /\ results[1].attempts >= 1
    /\ results[2] = ZeroResult

\* C11: once the context is cancelled or has expired, no worker receives a
\* new item, even when a worker is ready to receive.
C11_NoDispatchAfterDone == [][ctxErr # "nil" => takes' = takes]_vars

\* C12: a failure of client.Do that is not a network failure other than a
\* deadline (a non-network failure, the cancellation of ctx) ends the call
\* with that attempt, whatever the retry budget: it is the last outcome of
\* its call and the call has returned.
C12_NonRetryableClasses ==
    \A w \in Workers : \A k \in 1..Len(whist[w]) :
        (whist[w][k].err # "nil" /\ ~IsNetworkFailure(whist[w][k])) =>
            /\ wpc[w] = "emit"
            /\ k = Len(whist[w])

\* C13: an attempt that fails on a deadline (the attempt's timeout or the
\* deadline of ctx) is the last attempt of its call, whatever budget is
\* left: the call has returned, its Result has status 0, ok false, a
\* non-empty error and attempts counting the attempts up to that one, and
\* no further request is sent for that index.
C13_DeadlineTerminal ==
    /\ \A w \in Workers : \A k \in 1..Len(whist[w]) :
         whist[w][k].err = "deadline" =>
             /\ wpc[w] = "emit"
             /\ k = Len(whist[w])
             /\ wres[w].status = 0
             /\ ~wres[w].ok
             /\ wres[w].error # ""
             /\ wres[w].attempts = k
             /\ reqs[wjob[w].idx] = k
    /\ \A i \in Indexes :
         produced[i].error = ErrorText("deadline") => reqs[i] = produced[i].attempts

\* A call has returned on a deadline at its first attempt, with retry
\* budget left.
C13_Witness ==
    \E w \in Workers :
        /\ wpc[w] = "emit"
        /\ c.retries >= 1
        /\ whist[w] = <<Failure("deadline")>>
        /\ wres[w].attempts = 1
        /\ wres[w].error = ErrorText("deadline")
        /\ reqs[wjob[w].idx] = 1

\* C14: for a URL whose request cannot be built no request is ever sent,
\* the failed construction is the only attempt of its call whatever the
\* retry budget, and the Result is {url, ok false, status 0, attempts 1,
\* error = the text of the construction error}.
C14_ConstructionFailure ==
    /\ \A i \in Indexes :
         urls[i] = BadURL =>
             /\ reqs[i] = 0
             /\ produced[i] # ZeroResult =>
                    produced[i] = [url |-> urls[i], ok |-> FALSE, status |-> 0,
                                   error |-> ErrorText("parse"), attempts |-> 1]
    /\ \A w \in Workers :
         (wjob[w] # NoJob /\ wjob[w].url = BadURL) =>
             /\ wpc[w] \in {"loop", "emit"}
             /\ wpc[w] = "emit" => whist[w] = <<Failure("parse")>>

\* Check has returned the Result of a malformed URL, with retry budget
\* left and no request sent for it.
C14_Witness ==
    /\ Returned
    /\ c.retries >= 1
    /\ \E i \in Indexes :
         /\ urls[i] = BadURL
         /\ reqs[i] = 0
         /\ results[i].attempts = 1
         /\ results[i].error = ErrorText("parse")

\* The number of results for index i in the buffer of out.
Buffered(i) == Cardinality({k \in 1..Len(out) : out[k].idx = i})

\* Every index is taken by at most one worker, is held by at most one
\* worker at a time, and is emitted at most once: its result is in the
\* buffer or in its slot, never twice, and not before its worker has
\* emitted it.
SingleWriter ==
    /\ \A i \in Indexes :
         /\ takes[i] <= 1
         /\ Buffered(i) + writes[i] <= takes[i]
    /\ \A w1, w2 \in Workers :
         (w1 # w2 /\ wjob[w1] # NoJob /\ wjob[w2] # NoJob) =>
             wjob[w1].idx # wjob[w2].idx
    /\ \A w \in Workers :
         wjob[w] # NoJob => Buffered(wjob[w].idx) + writes[wjob[w].idx] = 0

\* C15: during one Check call no two workers take the same item, each
\* index is emitted on the results channel at most once, and results[i]
\* is written at most once and never changes after that write.
C15_SingleWrite ==
    /\ []SingleWriter
    /\ [][\A i \in Indexes : writes[i] >= 1 => results'[i] = results[i]]_vars

\* Check has returned with two workers and two slots, each written once.
C15_Witness ==
    /\ Returned
    /\ c.concurrency >= 2
    /\ Len(urls) >= 2
    /\ \A i \in Indexes : takes[i] = 1 /\ writes[i] = 1 /\ results[i] = produced[i]

\* C16: the failure of a URL, of whatever class, neither keeps another
\* URL from being checked nor makes Check return an error: an error is
\* returned only when ctx is done, and when ctx was never cancelled and
\* never expired Check returns nil with, for every URL, the result its
\* worker produced, with attempts >= 1, even when every URL failed.
C16_ErrorContainment ==
    Returned =>
        /\ retErr # "nil" => ctxErr # "nil"
        /\ ctxErr = "nil" =>
             /\ retErr = "nil"
             /\ \A i \in Indexes :
                  /\ takes[i] = 1
                  /\ results[i] = produced[i]
                  /\ results[i].url = urls[i]
                  /\ results[i].attempts >= 1

\* Check has returned nil, with ctx never done, for two URLs that both
\* failed: one on the construction of its request, one at the transport.
C16_Witness ==
    /\ Returned
    /\ ctxErr = "nil"
    /\ retErr = "nil"
    /\ Len(urls) >= 2
    /\ results[1].error = ErrorText("parse")
    /\ results[2].error = ErrorText("dns")
    /\ results[2].attempts >= 1

\* The last outcome of the call whose outcomes are h.
LastOutcome(h) == h[Len(h)]

\* Worker w's Result is the one of a response received at the final
\* attempt: the status is the response's code and the error is empty.
OnResponse(w) ==
    /\ LastOutcome(whist[w]).err = "nil"
    /\ wres[w].status = LastOutcome(whist[w]).status
    /\ wres[w].error = ""

\* Worker w's Result is the one of a call that never received a response:
\* status 0, ok false and the non-empty text of the last failure.
OnNoResponse(w) ==
    /\ \A k \in 1..Len(whist[w]) : whist[w][k].err # "nil"
    /\ wres[w].status = 0
    /\ ~wres[w].ok
    /\ wres[w].error = ErrorText(LastOutcome(whist[w]).err)
    /\ wres[w].error # ""

\* C17 as stated: every result a worker produced has attempts >= 1 and
\* is exactly one of (a) the result of a response received at the final
\* attempt, with that response's non-zero code as status and an empty
\* error, (b) the result of a call that never received a response.
C17_FieldConsistencyNonZero ==
    \A w \in Workers :
        wpc[w] = "emit" =>
            /\ wres[w].attempts >= 1
            /\ whist[w] # <<>>
            /\ (OnResponse(w) /\ wres[w].status # 0) # OnNoResponse(w)

\* C17, amended: every result a worker produced has attempts >= 1 and is
\* exactly one of (a) the result of a response received at the final
\* attempt, with that response's code as status, whatever the code, and
\* an empty error, (b) the result of a call that never received a
\* response, with status 0, ok false and the non-empty text of the last
\* failure as error.
C17_FieldConsistency ==
    \A w \in Workers :
        wpc[w] = "emit" =>
            /\ wres[w].attempts >= 1
            /\ wres[w].attempts = Len(whist[w])
            /\ OnResponse(w) # OnNoResponse(w)

\* A call has returned on a response whose status code is 0: status 0
\* with an empty error.
C17_Witness ==
    \E w \in Workers :
        /\ wpc[w] = "emit"
        /\ LastOutcome(whist[w]) = Response(0)
        /\ wres[w].status = 0
        /\ wres[w].error = ""
        /\ wres[w].attempts >= 1

\* The Checker holds the normalized arguments; Check has started at least
\* one worker; every Result produced counts at least one attempt.
Normalized ==
    /\ c.concurrency = (IF args.concurrency < 1 THEN 1 ELSE args.concurrency)
    /\ c.retries = (IF args.retries < 0 THEN 0 ELSE args.retries)
    /\ c.timeout > 0
    /\ args.timeout > 0 => c.timeout = args.timeout
    /\ mainPc # "call" => \E w \in DOMAIN wpc : wpc[w] # "new"
    /\ \A w \in DOMAIN wpc : wpc[w] = "emit" => wres[w].attempts >= 1
    /\ \A i \in Indexes : writes[i] >= 1 => results[i].attempts >= 1

\* C18: NewChecker maps a concurrency below 1 to 1, a negative retry
\* count to 0 and a non-positive timeout to a positive default, and keeps
\* valid values; so for every configuration Check starts at least one
\* worker, makes at least one attempt for each dispatched URL, and
\* terminates.
C18_Normalization == []Normalized /\ <>Returned

\* Check has returned one result, with one attempt, on a Checker built
\* from a negative concurrency, a negative timeout and a negative retry
\* count.
C18_Witness ==
    /\ Returned
    /\ args.concurrency < 0
    /\ args.timeout < 0
    /\ args.retries < 0
    /\ c = [concurrency |-> 1, timeout |-> DefaultTimeout, retries |-> 0]
    /\ Len(urls) = 1
    /\ takes[1] = 1
    /\ results[1].attempts = 1

\* The out channel is closed only once every worker has exited, the jobs
\* channel is closed exactly when the dispatcher is done, the buffer of
\* out never holds more than len(urls) results, and a worker that is to
\* emit finds out open and with room.
ChannelDiscipline ==
    /\ outClosed => AllWorkersDone
    /\ jobsClosed <=> dispPc = "done"
    /\ Len(out) <= Len(urls)
    /\ \A w \in Workers : wpc[w] = "emit" => (~outClosed /\ Len(out) < OutCap)

\* A channel is closed by its one closer, once, and stays closed: jobs by
\* the running dispatcher as it ends, out by the joiner after the workers,
\* and no item is taken from jobs or put into out once it is closed.
ClosedOnce ==
    /\ jobsClosed' # jobsClosed => (~jobsClosed /\ dispPc = "run" /\ dispPc' = "done")
    /\ outClosed' # outClosed => (~outClosed /\ AllWorkersDone)
    /\ dispPc = "done" => dispPc' = "done"
    /\ jobsClosed => takes' = takes
    /\ outClosed => Len(out') <= Len(out)

\* C19: in every interleaving no worker sends on the results channel
\* after its close, which comes only after every worker has exited; the
\* dispatcher closes the work queue exactly once and never sends on it
\* afterwards; and the buffered results never exceed len(urls), so that a
\* worker never blocks on emitting, however slowly the caller collects.
C19_ChannelDiscipline == []ChannelDiscipline /\ [][ClosedOnce]_vars

\* The second worker is about to emit while the first result still sits
\* in the buffer, uncollected, and the work queue is closed.
C19_Witness ==
    /\ Len(urls) = 2
    /\ Len(out) = 1
    /\ writes = <<0, 0>>
    /\ jobsClosed
    /\ ~outClosed
    /\ \E w \in Workers : wpc[w] = "emit"

\* C20: when Check returns, however the call ended, the dispatcher has
\* returned and closed the work queue, every worker has exited, the
\* joiner has closed the results channel, which is drained, and no
\* attempt of the call is in flight.
C20_NoLeak ==
    Returned =>
        /\ dispPc = "done"
        /\ jobsClosed
        /\ AllWorkersDone
        /\ outClosed
        /\ out = <<>>
        /\ active = 0
        /\ \A w \in Workers : wjob[w] = NoJob

\* Check has returned after a cancellation by the caller that ended an
\* attempt in flight.
C20_Witness ==
    /\ Returned
    /\ ctxErr = "Canceled"
    /\ SomeRequestSent
    /\ \E i \in Indexes : results[i].error = ErrorText("canceled")
    /\ AllWorkersDone
    /\ active = 0
====
